---- MODULE Spec2Model ----
(***************************************************************************)
(* The identity provider of samlify (src/src/entity-idp.ts): the           *)
(* IdentityProvider constructor, createLoginResponse and parseLoginRequest. *)
(*                                                                         *)
(* JavaScript objects are functions from property names to values: a       *)
(* property that is not set is a name outside the DOMAIN.  The values of a  *)
(* template's properties carry their JavaScript type ([t |-> ..., v |-> ..])*)
(* so that isString and Array.isArray can be decided.                       *)
(* The calls made on one entity are a bag of records: calls have no        *)
(* identity beyond their arguments and how far they have got.              *)
(***************************************************************************)
EXTENDS Naturals, Sequences, FiniteSets, Bags

VARIABLES
  idpSetting,     \* the argument the constructor was called with
  entitySetting,  \* this.entitySetting of the constructed IdentityProvider
  console,        \* the warnings written by console.warn, in order
  calls           \* the calls made on the entity so far: a bag of call records

vars == <<idpSetting, entitySetting, console, calls>>

\* The longest attributes list of a login response template.
MaxAttrs == 2
\* The number of calls the application makes on one entity.
MaxCalls == 2

-----------------------------------------------------------------------------
(* JavaScript objects *)

EmptyObj == [k \in {} |-> ""]

\* Object.assign(target, source): a shallow merge, source's own properties win.
ObjectAssign(target, source) ==
  [k \in DOMAIN target \cup DOMAIN source |->
     IF k \in DOMAIN source THEN source[k] ELSE target[k]]

Undefined == [t |-> "undefined", v |-> <<>>]
Str(s) == [t |-> "string", v |-> s]
Arr(a) == [t |-> "array", v |-> a]
Num == [t |-> "number", v |-> <<>>]

\* o[k] of JavaScript: undefined when the property is not set.
Get(o, k) == IF k \in DOMAIN o THEN o[k] ELSE Undefined

isString(x) == x.t = "string"
isArray(x) == x.t = "array"

-----------------------------------------------------------------------------
(* XML templates: a context is a sequence of tokens, literal text or a     *)
(* {Tag} placeholder.                                                      *)

Lit(s) == [k |-> "lit", s |-> s]
Tag(s) == [k |-> "tag", s |-> s]
AttrOpen(name) == [k |-> "attr", s |-> name]

\* libsaml.attributeStatementBuilder: one Attribute element per descriptor, in
\* the order of the list, each holding the placeholder of its value.
attributeElement(d) ==
  <<AttrOpen(d.name), Tag(d.valueTag), Lit("</saml:Attribute>")>>

RECURSIVE attributeElements(_)
attributeElements(attributes) ==
  IF attributes = <<>> THEN <<>>
  ELSE attributeElement(Head(attributes)) \o attributeElements(Tail(attributes))

attributeStatementBuilder(attributes) ==
  <<Lit("<saml:AttributeStatement>")>>
    \o attributeElements(attributes)
    \o <<Lit("</saml:AttributeStatement>")>>

\* libsaml.replaceTagsByValue: every occurrence of each placeholder named in
\* the replacement is replaced by its value; the rest is kept.
RECURSIVE replaceTagsByValue(_, _)
replaceTagsByValue(rawXML, tagValues) ==
  IF rawXML = <<>> THEN <<>>
  ELSE LET tok == Head(rawXML)
       IN (IF tok.k = "tag" /\ tok.s \in DOMAIN tagValues
             THEN tagValues[tok.s] ELSE <<tok>>)
          \o replaceTagsByValue(Tail(rawXML), tagValues)

-----------------------------------------------------------------------------
(* The constructor *)

defaultIdpEntitySetting ==
  [wantAuthnRequestsSigned |-> FALSE,
   tagPrefix |-> [encryptedAssertion |-> "saml"]]

\* The object the valid template is replaced by, the context dropped.
buildTemplateContextOnly(template) ==
  [context |-> Str(replaceTagsByValue(template["context"].v,
       [AttributeStatement |-> attributeStatementBuilder(template["attributes"].v)]))]

\* The template as the constructor leaves it when the shape is valid:
\* { ...template, context: replaceTagsByValue(template.context, replacement) }.
buildTemplate(template) ==
  ObjectAssign(template,
    [context |-> Str(replaceTagsByValue(template["context"].v,
       [AttributeStatement |-> attributeStatementBuilder(template["attributes"].v)]))])

\* The merge of the defaults and the caller's settings.
mergedSetting(setting) == ObjectAssign(defaultIdpEntitySetting, setting)

validTemplate(template) ==
  isString(Get(template, "context")) /\ isArray(Get(template, "attributes"))

\* new IdentityProvider(idpSetting): the setting handed to Entity and the
\* warnings written.
Constructor(setting) ==
  LET merged == mergedSetting(setting)
  IN IF "loginResponseTemplate" \in DOMAIN setting
       THEN IF validTemplate(setting["loginResponseTemplate"])
              THEN [setting |-> ObjectAssign(merged,
                       [loginResponseTemplate |->
                          buildTemplate(merged["loginResponseTemplate"])]),
                    warnings |-> <<>>]
              ELSE [setting |-> merged,
                    warnings |-> <<"Invalid login response template">>]
       ELSE [setting |-> merged, warnings |-> <<>>]

\* Entity's constructor keeps the setting it is given.
EntityConstructor(setting) == setting

\* entityMeta.isWantAuthnRequestsSigned() of the identity provider.
isWantAuthnRequestsSigned(setting) == setting["wantAuthnRequestsSigned"]

-----------------------------------------------------------------------------
(* The peers: service providers, their metadata and certificates *)

SPs == {"sp1", "sp2"}

\* wording.binding / namespace.binding of urn.ts.
namespaceBinding ==
  [redirect |-> "urn:oasis:names:tc:SAML:2.0:bindings:HTTP-Redirect",
   post |-> "urn:oasis:names:tc:SAML:2.0:bindings:HTTP-POST",
   artifact |-> "urn:oasis:names:tc:SAML:2.0:bindings:HTTP-Artifact"]

\* The AssertionConsumerService elements of each SP's metadata, by binding URN.
assertionConsumerService(sp) ==
  IF sp = "sp1"
    THEN [b \in {namespaceBinding.post, namespaceBinding.redirect} |->
            IF b = namespaceBinding.post THEN "https://sp1.example/acs"
                                         ELSE "https://sp1.example/acs-redirect"]
    ELSE [b \in {namespaceBinding.post} |-> "https://sp2.example/sso/acs"]

\* sp.entityMeta.getAssertionConsumerService(binding): the location of the
\* service with that binding, undefined when the SP has none.
getAssertionConsumerService(sp, binding) ==
  IF binding \in DOMAIN namespaceBinding
       /\ namespaceBinding[binding] \in DOMAIN assertionConsumerService(sp)
    THEN assertionConsumerService(sp)[namespaceBinding[binding]]
    ELSE "undefined"

\* The certificate an SP signs its requests with.
\* The certificate the IdP itself signs with.
idpCert == "cert-idp"
\* The certificate an entity signs with: the SPs', and this IdP's own.
signingCert(entity) ==
  IF entity = "sp1" THEN "cert-sp1"
  ELSE IF entity = "sp2" THEN "cert-sp2" ELSE idpCert
\* Whether the SP publishes an encryption certificate: its assertions are
\* then encrypted.
hasEncryptCert(sp) == sp = "sp1"

-----------------------------------------------------------------------------
(* Login requests as they arrive *)

\* The signed part of an AuthnRequest.  An empty Issuer is a request without
\* the element.
Body(issuer, format) == [ID |-> "req-123", Issuer |-> issuer, Format |-> format]

NoSignature == [present |-> FALSE, digest |-> Body("", ""), cert |-> ""]
\* The signature an SP computes over a body.
SignatureOver(body, sp) == [present |-> TRUE, digest |-> body, cert |-> signingCert(sp)]

Xml(body, sig) == [wellFormed |-> TRUE, body |-> body, sig |-> sig]
NotXml == [wellFormed |-> FALSE, body |-> Body("", ""), sig |-> NoSignature]

\* The documents the SPs (or someone on the way) send.
Documents ==
  { Xml(Body("sp1", "email"), SignatureOver(Body("sp1", "email"), "sp1")),
    \* NameIDPolicy Format altered after signing
    Xml(Body("sp1", "persistent"), SignatureOver(Body("sp1", "email"), "sp1")),
    Xml(Body("sp1", "email"), NoSignature),
    Xml(Body("sp2", "email"), SignatureOver(Body("sp2", "email"), "sp2")),
    \* no Issuer element, correctly signed
    Xml(Body("", "email"), SignatureOver(Body("", "email"), "sp1")),
    NotXml }

\* The binding codecs: what was encoded for one binding decodes only with it.
Encode(binding, doc) == [codec |-> binding, doc |-> doc]
Decodes(binding, raw) == raw.codec = binding
Decode(raw) == raw.doc

ParseBindings == {"post", "redirect"}

\* The transport values of the requests: every document as a POST form
\* field, and two of them as a redirect query parameter.
Requests ==
  { Encode("post", d) : d \in Documents }
    \cup { Encode("redirect", d) : d \in
             { Xml(Body("sp1", "email"), SignatureOver(Body("sp1", "email"), "sp1")),
               Xml(Body("sp1", "email"), NoSignature) } }

NoRequest == Encode("", NotXml)

\* The signature engine's verify(xml, trustedCert).
verify(doc, trustedCert) ==
  /\ doc.sig.present
  /\ doc.sig.digest = doc.body
  /\ doc.sig.cert = trustedCert

\* The fields parseLoginRequest asks for.
extracted(doc) ==
  [Issuer |-> doc.body.Issuer, ID |-> doc.body.ID, Format |-> doc.body.Format]

parsed(steps, trusted) ==
  [ok |-> TRUE, err |-> "", result |-> EmptyObj, steps |-> steps, trusted |-> trusted]
parseFailure(err, steps, trusted) ==
  [ok |-> FALSE, err |-> err, result |-> EmptyObj, steps |-> steps, trusted |-> trusted]

\* Entity.genericParser(opts, binding, req): decode, parse, verify when
\* opts.checkSignature, extract; the first failing step ends the call.
genericParser(opts, binding, req) ==
  IF ~Decodes(binding, req)
    THEN parseFailure("BindingDecodeError", <<>>, "")
  ELSE IF ~Decode(req).wellFormed
    THEN parseFailure("MalformedXmlError", <<"decode">>, "")
  ELSE IF opts.checkSignature /\ ~verify(Decode(req), signingCert(opts.from))
    THEN parseFailure("SignatureVerificationError", <<"decode", "parse">>,
                      signingCert(opts.from))
  ELSE LET steps == IF opts.checkSignature THEN <<"decode", "parse", "verify">>
                                           ELSE <<"decode", "parse">>
           trusted == IF opts.checkSignature THEN signingCert(opts.from) ELSE ""
       IN IF Decode(req).body.Issuer = ""
            THEN parseFailure("MissingRequiredElementError", steps, trusted)
            ELSE [parsed(steps \o <<"extract">>, trusted)
                    EXCEPT !.result = extracted(Decode(req))]

-----------------------------------------------------------------------------
(* createLoginResponse *)

\* The binding arguments: the three bindings of urn.ts, one it does not
\* know, and the argument left out (the property named "undefined").
Bindings == {"post", "redirect", "artifact", "soap", "undefined"}

\* The encryptThenSign arguments: true, false, left out.
Flags == {"true", "false", "undefined"}

\* namespace.binding[binding] || namespace.binding.redirect
\* with the fallback being the post binding.
protocolOfDefaultPost(binding) ==
  IF binding \in DOMAIN namespaceBinding THEN namespaceBinding[binding]
                                          ELSE namespaceBinding.post

\* namespace.binding[binding] || namespace.binding.redirect
protocolOf(binding) ==
  IF binding \in DOMAIN namespaceBinding THEN namespaceBinding[binding]
                                          ELSE namespaceBinding.redirect

\* The arguments of the call, the caller's flag not passed on.
postBindingArgsNoFlag(sp, encryptThenSign) ==
  [idp |-> "idp", sp |-> sp, encryptThenSign |-> "undefined"]

\* The arguments createLoginResponse hands to postBinding.base64LoginResponse.
postBindingArgs(sp, encryptThenSign) ==
  [idp |-> "idp", sp |-> sp, encryptThenSign |-> encryptThenSign]

\* postBinding.base64LoginResponse: the steps it takes, in order.  The
\* assertion is encrypted when the SP has an encryption certificate; the
\* flag defaults to false.
base64LoginResponseSteps(args) ==
  IF ~hasEncryptCert(args.sp) THEN <<"template", "sign", "encode">>
  ELSE IF args.encryptThenSign = "true"
    THEN <<"template", "encrypt", "sign", "encode">>
    ELSE <<"template", "sign", "encrypt", "encode">>

\* The response document before any step.
NoDoc == [tpl |-> "", layers |-> <<>>]

\* What the POST binding resolves to: the id and the base64 of the document.
\* extra: further properties the binding may put on its result.
PayloadExtras ==
  { EmptyObj, [type |-> "SAMLRequest", entityEndpoint |-> "https://other.example/"] }

payload(doc, extra) ==
  ObjectAssign(extra, [id |-> "_id", context |-> [b64 |-> doc]])

\* { ...context, entityEndpoint, type } with the spread written last.
loginResponseResultSpreadLast(context, sp, binding) ==
  ObjectAssign([entityEndpoint |-> getAssertionConsumerService(sp, binding),
                type |-> "SAMLResponse"], context)

\* { ...context, entityEndpoint: sp.entityMeta.getAssertionConsumerService(binding),
\*   type: 'SAMLResponse' }
loginResponseResult(context, sp, binding) ==
  ObjectAssign(context,
    [entityEndpoint |-> getAssertionConsumerService(sp, binding),
     type |-> "SAMLResponse"])

NewCall ==
  [op |-> "", pc |-> "", sp |-> "", binding |-> "", flag |-> "", req |-> NoRequest,
   from |-> "", checkSignature |-> FALSE, trusted |-> "",
   todo |-> <<>>, log |-> <<>>, doc |-> NoDoc,
   context |-> EmptyObj, ret |-> EmptyObj, err |-> ""]

\* The call up to its first await: the protocol is resolved, and either the
\* POST binding is started or the call throws.
createLoginResponse(sp, binding, encryptThenSign) ==
  LET call == [NewCall EXCEPT !.op = "create", !.sp = sp, !.binding = binding,
                              !.flag = encryptThenSign]
  IN IF protocolOf(binding) = namespaceBinding.post
       THEN [call EXCEPT !.pc = "building",
               !.todo = base64LoginResponseSteps(postBindingArgs(sp, encryptThenSign))]
       ELSE [call EXCEPT !.pc = "failed", !.err = "this binding is not supported"]

\* One step of the POST binding on the document.
applyStep(doc, step, setting) ==
  IF step = "template"
    THEN [doc EXCEPT !.tpl = IF "loginResponseTemplate" \in DOMAIN setting
                               THEN "custom" ELSE "default"]
  ELSE IF step = "sign" THEN [doc EXCEPT !.layers = Append(@, "signed")]
  ELSE IF step = "encrypt" THEN [doc EXCEPT !.layers = Append(@, "encrypted")]
  ELSE doc

stepError(step) ==
  IF step = "template" THEN "InvalidTemplateError"
  ELSE IF step = "sign" THEN "SignatureError"
  ELSE IF step = "encrypt" THEN "EncryptionError" ELSE "EncodeError"

\* A step succeeded: the last one resolves the binding's promise.
stepDone(call, step, setting, extra) ==
  LET doc == applyStep(call.doc, step, setting)
  IN [call EXCEPT !.log = Append(@, step), !.todo = Tail(@), !.doc = doc,
                  !.pc = IF step = "encode" THEN "built" ELSE @,
                  !.context = IF step = "encode" THEN payload(doc, extra) ELSE @]

\* The rejection caught and the call carried on with an empty payload.
onRejectSwallow(call, step) ==
  [call EXCEPT !.pc = "built", !.todo = <<>>]

\* A step failed: the binding's promise rejects, the await throws and the
\* async function rejects with the same error.
onReject(call, step) ==
  [call EXCEPT !.pc = "failed", !.err = stepError(step)]

\* The call goes on without waiting for the binding.
resumeReadyNoAwait(call) == call.pc \in {"building", "built"}

\* The await returns when the binding's promise is fulfilled.
resumeReady(call) == call.pc = "built"

\* After the await: the endpoint is looked up and the result returned.
resume(call) ==
  [call EXCEPT !.pc = "done", !.log = Append(@, "endpoint"),
               !.ret = loginResponseResult(call.context, call.sp, call.binding)]

-----------------------------------------------------------------------------
(* parseLoginRequest *)

\* The options with the signature check switched off.
parserOptionsNoCheck(setting, sp) ==
  [from |-> sp, checkSignature |-> FALSE,
   parserType |-> "SAMLRequest", type |-> "login"]

\* The options with the entity itself as the sender.
parserOptionsFromSelf(setting, sp) ==
  [from |-> "idp", checkSignature |-> isWantAuthnRequestsSigned(setting),
   parserType |-> "SAMLRequest", type |-> "login"]

\* The options parseLoginRequest hands to genericParser.
parserOptions(setting, sp) ==
  [from |-> sp, checkSignature |-> isWantAuthnRequestsSigned(setting),
   parserType |-> "SAMLRequest", type |-> "login"]

parseLoginRequest(setting, sp, binding, req) ==
  LET opts == parserOptions(setting, sp)
      r == genericParser(opts, binding, req)
  IN [NewCall EXCEPT !.op = "parse", !.sp = sp, !.binding = binding, !.req = req,
        !.from = opts.from, !.checkSignature = opts.checkSignature,
        !.trusted = r.trusted, !.log = r.steps, !.ret = r.result, !.err = r.err,
        !.pc = IF r.ok THEN "done" ELSE "failed"]

-----------------------------------------------------------------------------
(* The settings an IdentityProvider is constructed with *)

AttrPool ==
  { [name |-> "mail", valueTag |-> "attrMail"],
    [name |-> "role", valueTag |-> "attrRole"] }

\* The attribute lists of at most MaxAttrs descriptors.
AttrLists == UNION { [1..n -> AttrPool] : n \in 0..MaxAttrs }

\* Template contexts: with the AttributeStatement placeholder between two
\* per-call placeholders, and without it.
Contexts ==
  { <<Lit("<samlp:Response>"), Tag("ID"), Tag("AttributeStatement"),
      Tag("Issuer"), Lit("</samlp:Response>")>>,
    <<Lit("<samlp:Response>"), Tag("ID"), Lit("</samlp:Response>")>> }

ValidTemplates ==
  { [context |-> Str(c), attributes |-> Arr(a)] : c \in Contexts, a \in AttrLists }
    \cup { [context |-> Str(c), attributes |-> Arr(<<>>),
            additional |-> Str(<<Lit("<!-- kept -->")>>)] : c \in Contexts }

InvalidTemplates ==
  { [context |-> Num, attributes |-> Arr(<<>>)] }
    \cup { [context |-> Str(c)] : c \in Contexts }
    \cup { [context |-> Str(c), attributes |-> Str(<<>>)] : c \in Contexts }
    \cup { [attributes |-> Arr(a)] : a \in AttrLists }

Templates == ValidTemplates \cup InvalidTemplates

WantParts ==
  { EmptyObj, [wantAuthnRequestsSigned |-> TRUE], [wantAuthnRequestsSigned |-> FALSE] }

\* tagPrefix left out, with the encrypted assertion's prefix, and with
\* another prefix only.
TagPrefixParts ==
  { EmptyObj, [tagPrefix |-> [encryptedAssertion |-> "enc"]],
    [tagPrefix |-> [assertion |-> "a"]] }

TemplateParts == { EmptyObj } \cup { [loginResponseTemplate |-> t] : t \in Templates }

\* Every combination of the parts.
IdpSettings ==
  { ObjectAssign(ObjectAssign(w, p), t) :
      w \in WantParts, p \in TagPrefixParts, t \in TemplateParts }

\* The settings the calls are explored with: the signature flag left out,
\* true and false, without a template, with a valid and with an invalid one.
CallSettings ==
  { EmptyObj,
    [wantAuthnRequestsSigned |-> TRUE],
    [wantAuthnRequestsSigned |-> FALSE,
     loginResponseTemplate |->
       [context |-> Str(<<Tag("ID"), Tag("AttributeStatement")>>),
        attributes |-> Arr(<<[name |-> "mail", valueTag |-> "attrMail"]>>)]],
    [wantAuthnRequestsSigned |-> TRUE,
     loginResponseTemplate |-> [context |-> Num, attributes |-> Arr(<<>>)]] }

-----------------------------------------------------------------------------
(* The state machine *)

\* The bag of calls with one record of `call` replaced by `next`.
Replace(bag, call, next) == (bag (-) SetToBag({call})) (+) SetToBag({next})

Constructed(setting) ==
  /\ idpSetting = setting
  /\ entitySetting = EntityConstructor(Constructor(setting).setting)
  /\ console = Constructor(setting).warnings
  /\ calls = EmptyBag

\* An entity constructed from one of the settings the calls are explored with.
Init == \E setting \in CallSettings : Constructed(setting)

\* An entity constructed from any of the settings.
InitCtor == \E setting \in IdpSettings : Constructed(setting)

\* The application calls createLoginResponse.
CreateLoginResponse(max) ==
  /\ BagCardinality(calls) < max
  /\ \E sp \in SPs, binding \in Bindings, encryptThenSign \in Flags :
       calls' = calls (+) SetToBag({createLoginResponse(sp, binding, encryptThenSign)})
  /\ UNCHANGED <<idpSetting, entitySetting, console>>

\* The POST binding takes its next step, which succeeds or fails.
BuildStep ==
  \E call \in BagToSet(calls) :
    /\ call.op = "create"
    /\ call.pc = "building"
    /\ \E ok \in BOOLEAN, extra \in PayloadExtras :
         calls' = Replace(calls, call,
                    IF ok THEN stepDone(call, Head(call.todo), entitySetting, extra)
                          ELSE onReject(call, Head(call.todo)))
    /\ UNCHANGED <<idpSetting, entitySetting, console>>

\* createLoginResponse goes on after its await and returns.
Resume ==
  \E call \in BagToSet(calls) :
    /\ call.op = "create"
    /\ resumeReady(call)
    /\ calls' = Replace(calls, call, resume(call))
    /\ UNCHANGED <<idpSetting, entitySetting, console>>

\* The application calls parseLoginRequest, which runs to its end.
ParseLoginRequest(max) ==
  /\ BagCardinality(calls) < max
  /\ \E sp \in SPs, binding \in ParseBindings, req \in Requests :
       calls' = calls (+) SetToBag({parseLoginRequest(entitySetting, sp, binding, req)})
  /\ UNCHANGED <<idpSetting, entitySetting, console>>

Next ==
  \/ CreateLoginResponse(MaxCalls)
  \/ BuildStep
  \/ Resume
  \/ ParseLoginRequest(MaxCalls)

Spec == Init /\ [][Next]_vars

\* Construction from any setting, followed by one call.
NextCtor ==
  \/ CreateLoginResponse(1)
  \/ BuildStep
  \/ Resume
  \/ ParseLoginRequest(1)

SpecCtor == InitCtor /\ [][NextCtor]_vars

-----------------------------------------------------------------------------
(* What the properties are stated with *)

Creates == { c \in BagToSet(calls) : c.op = "create" }
Parses == { c \in BagToSet(calls) : c.op = "parse" }

Has(seq, x) == \E n \in DOMAIN seq : seq[n] = x

IsPrefix(p, seq) ==
  /\ Len(p) <= Len(seq)
  /\ \A n \in DOMAIN p : p[n] = seq[n]

\* The SP's assertion consumer service for the POST binding, as its metadata
\* has it.
AcsPost(sp) ==
  IF sp = "sp1" THEN "https://sp1.example/acs" ELSE "https://sp2.example/sso/acs"

\* The caller's wantAuthnRequestsSigned, false when it gave none.
WantSigned ==
  "wantAuthnRequestsSigned" \in DOMAIN idpSetting /\ idpSetting["wantAuthnRequestsSigned"]

\* C1: a createLoginResponse call whose binding argument is not "post" (the
\* only one that resolves to the post protocol) has failed with the
\* unsupported-binding error, and no step of the response pipeline and no
\* endpoint lookup has run for it: nothing was built, encoded or returned.
C1_UnsupportedBindingFails ==
  \A c \in Creates :
    c.binding # "post" =>
      /\ c.pc = "failed"
      /\ c.err = "this binding is not supported"
      /\ c.log = <<>>
      /\ c.doc = NoDoc
      /\ c.context = EmptyObj
      /\ c.ret = EmptyObj

\* Calls with the binding left out and with the artifact binding have failed.
C1_Witness ==
  /\ \E c \in Creates : c.binding = "undefined" /\ c.pc = "failed"
  /\ \E c \in Creates : c.binding = "artifact" /\ c.pc = "failed"

\* The request's signature is missing or was not computed over its body.
BadSignature(doc) == ~doc.sig.present \/ doc.sig.digest # doc.body

\* C2: when the IdP requires signed requests, a parseLoginRequest call on a
\* request whose signature is missing or does not match its body has failed
\* and returned no field; the failure is the signature verification error
\* whenever the request could be decoded and parsed at all.
C2_BadSignatureRejected ==
  \A c \in Parses :
    (WantSigned /\ BadSignature(c.req.doc)) =>
      /\ c.pc = "failed"
      /\ c.ret = EmptyObj
      /\ (c.req.codec = c.binding /\ c.req.doc.wellFormed)
           => c.err = "SignatureVerificationError"

\* A request whose Format was altered after signing was rejected.
C2_Witness ==
  \E c \in Parses :
    /\ WantSigned
    /\ c.req.doc.sig.present
    /\ c.req.doc.sig.digest.Format = "email"
    /\ c.req.doc.body.Format = "persistent"
    /\ c.err = "SignatureVerificationError"

\* C3: a createLoginResponse call that returned holds the payload of the
\* POST binding (its id and encoded context), type "SAMLResponse" and the
\* SP's assertion consumer service for the binding passed in, whatever
\* properties the payload itself carried.
C3_ResultAnnotated ==
  \A c \in Creates :
    c.pc = "done" =>
      /\ DOMAIN c.ret = DOMAIN c.context \cup {"entityEndpoint", "type"}
      /\ c.ret["type"] = "SAMLResponse"
      /\ c.ret["entityEndpoint"] = AcsPost(c.sp)
      /\ "id" \in DOMAIN c.context /\ "context" \in DOMAIN c.context
      /\ c.ret["id"] = c.context["id"]
      /\ c.ret["context"] = c.context["context"]
      /\ c.ret["context"] = [b64 |-> c.doc]

\* A call for sp2 returned.
C3_Witness ==
  \E c \in Creates :
    /\ c.pc = "done"
    /\ c.sp = "sp2"
    /\ c.ret["entityEndpoint"] = "https://sp2.example/sso/acs"

\* C4: in every parseLoginRequest call the signature check is asked for
\* exactly when the IdP was constructed with wantAuthnRequestsSigned true,
\* the sender handed to the parser is the sp argument, and a certificate
\* that was trusted is that SP's.
C4_CheckFollowsSetting ==
  \A c \in Parses :
    /\ c.checkSignature = WantSigned
    /\ c.from = c.sp
    /\ c.trusted \in
         {"", IF c.sp = "sp1" THEN "cert-sp1" ELSE "cert-sp2"}
    /\ (WantSigned /\ Has(c.log, "verify")) => c.trusted # ""

\* A request signed by sp2 was verified against sp2's certificate, and
\* the same request was refused when sp1 was the sender passed in.
C4_Witness ==
  /\ \E c \in Parses :
       c.sp = "sp2" /\ c.trusted = "cert-sp2" /\ c.pc = "done"
  /\ \E c \in Parses :
       /\ c.sp = "sp1" /\ c.req.doc.sig.cert = "cert-sp2"
       /\ c.err = "SignatureVerificationError"

\* The constructor was given a login response template.
TemplateGiven == "loginResponseTemplate" \in DOMAIN idpSetting

\* The template given has a string context and a sequence of attributes.
GivenValid ==
  /\ TemplateGiven
  /\ "context" \in DOMAIN idpSetting["loginResponseTemplate"]
  /\ idpSetting["loginResponseTemplate"]["context"].t = "string"
  /\ "attributes" \in DOMAIN idpSetting["loginResponseTemplate"]
  /\ idpSetting["loginResponseTemplate"]["attributes"].t = "array"

\* C5: after construction with a login response template whose context is
\* not a string or whose attributes is not a sequence, exactly one warning
\* was written, the entity has no login response template, and a
\* createLoginResponse call that reaches its template step finds none.
C5_InvalidTemplateUnset ==
  (TemplateGiven /\ ~GivenValid) =>
    /\ console = <<"Invalid login response template">>
    /\ "loginResponseTemplate" \notin DOMAIN entitySetting
    /\ \A c \in Creates : Has(c.log, "template") => c.doc.tpl = "default"

\* The order of the two protections on the document of call i.
SignThenEncrypt == <<"signed", "encrypted">>
EncryptThenSign == <<"encrypted", "signed">>

\* C6: for an SP whose assertions are encrypted, the protections are applied
\* in the order the caller's flag selects: encrypt-then-sign when
\* encryptThenSign was passed as true, sign-then-encrypt when it was false
\* or left out; the steps handed to the response building are in that order
\* from the start of the call.
C6_OrderFollowsFlag ==
  \A c \in Creates :
    (c.binding = "post" /\ c.sp = "sp1") =>
      LET order == IF c.flag = "true" THEN EncryptThenSign ELSE SignThenEncrypt
          steps == c.log \o c.todo
      IN /\ IsPrefix(c.doc.layers, order)
         /\ c.pc \in {"built", "done"} => c.doc.layers = order
         /\ \E m, n \in DOMAIN steps :
              /\ steps[m] = "sign" /\ steps[n] = "encrypt"
              /\ (m < n) = (c.flag # "true")

\* One call without the flag was signed and then encrypted, another with
\* the flag true was encrypted and then signed.
C6_Witness ==
  /\ \E c \in Creates :
       /\ c.flag = "undefined" /\ c.pc = "done"
       /\ c.doc.layers = <<"signed", "encrypted">>
  /\ \E c \in Creates :
       /\ c.flag = "true" /\ c.pc = "done"
       /\ c.doc.layers = <<"encrypted", "signed">>

\* The steps of a response for the SP and flag of a call, in order.
Pipeline(call) ==
  IF call.sp = "sp2" THEN <<"template", "sign", "encode">>
  ELSE IF call.flag = "true" THEN <<"template", "encrypt", "sign", "encode">>
  ELSE <<"template", "sign", "encrypt", "encode">>

ParsePipeline == <<"decode", "parse", "verify", "extract">>
ParsePipelineUnchecked == <<"decode", "parse", "extract">>

\* What C7 says of each state.
C7_State ==
  /\ \A c \in Creates :
       /\ c.pc \in {"building", "built", "done", "failed"}
       /\ c.pc = "failed" =>
            /\ ~Has(c.log, "endpoint")
            /\ c.context = EmptyObj
            /\ c.ret = EmptyObj
            /\ c.err # ""
            /\ c.binding = "post" =>
                 /\ IsPrefix(c.log, Pipeline(c))
                 /\ Len(c.log) < Len(Pipeline(c))
       /\ c.pc = "done" =>
            /\ c.log = Pipeline(c) \o <<"endpoint">>
            /\ c.err = ""
       /\ c.pc \in {"building", "built"} =>
            /\ IsPrefix(c.log, Pipeline(c))
            /\ c.ret = EmptyObj
  /\ \A c \in Parses :
       /\ c.pc \in {"done", "failed"}
       /\ c.pc = "failed" =>
            /\ c.ret = EmptyObj
            /\ c.err # ""
            /\ ~Has(c.log, "extract")
            /\ \/ IsPrefix(c.log, ParsePipeline)
               \/ IsPrefix(c.log, ParsePipelineUnchecked)
       /\ c.pc = "done" =>
            /\ c.log \in {ParsePipeline, ParsePipelineUnchecked}
            /\ c.err = ""

\* What C7 says of each step: the records of the calls that have failed or
\* returned stay as they are, and the call that takes the step had neither
\* failed nor returned and keeps what it has run.
C7_Step ==
  /\ \A c \in BagToSet(calls) :
       c.pc \in {"done", "failed"} => CopiesIn(c, calls') >= CopiesIn(c, calls)
  /\ \/ \E new \in BagToSet(calls') : calls' = calls (+) SetToBag({new})
     \/ \E c \in BagToSet(calls), next \in BagToSet(calls') :
          /\ calls' = Replace(calls, c, next)
          /\ c.pc \notin {"done", "failed"}
          /\ IsPrefix(c.log, next.log)

\* C7: a call that failed ran only the steps before the one that failed,
\* looked up no endpoint and returned nothing; a call that returned ran
\* every step of its path; and a call that has failed or returned takes no
\* further step, so that no call both fails and returns.
C7_FailureAbortsCall == [](C7_State) /\ [][C7_Step]_vars

\* A response whose encryption failed after template and signing.
C7_Witness ==
  \E c \in Creates :
    /\ c.pc = "failed"
    /\ c.err = "EncryptionError"
    /\ c.log = <<"template", "sign">>

\* The names of the Attribute elements of a context, in order.
RECURSIVE AttributeNames(_)
AttributeNames(context) ==
  IF context = <<>> THEN <<>>
  ELSE (IF Head(context).k = "attr" THEN <<Head(context).s>> ELSE <<>>)
         \o AttributeNames(Tail(context))

\* The names of the descriptors of an attribute list, in order.
DeclaredNames(attributes) == [n \in DOMAIN attributes |-> attributes[n].name]

\* The placeholders of a context other than those in `except`, in order.
RECURSIVE Placeholders(_, _)
Placeholders(context, except) ==
  IF context = <<>> THEN <<>>
  ELSE (IF Head(context).k = "tag" /\ Head(context).s \notin except
          THEN <<Head(context).s>> ELSE <<>>)
         \o Placeholders(Tail(context), except)

Occurrences(context, tag) ==
  Cardinality({ n \in DOMAIN context : context[n] = Tag(tag) })

\* C8: after construction with a valid login response template, and so
\* before any call, the stored template has the properties of the one
\* given, all but context unchanged (attributes among them); its context
\* has no AttributeStatement placeholder left, holds the declared
\* attributes in their declared order where the placeholder stood, and
\* still has every per-call placeholder of the given context, in order.
C8_AttributeStatementSubstituted ==
  GivenValid =>
    LET given == idpSetting["loginResponseTemplate"]
    IN /\ "loginResponseTemplate" \in DOMAIN entitySetting
       /\ LET stored == entitySetting["loginResponseTemplate"]
          IN /\ DOMAIN stored = DOMAIN given
             /\ \A k \in DOMAIN given \ {"context"} : stored[k] = given[k]
             /\ stored["context"].t = "string"
             /\ Occurrences(stored["context"].v, "AttributeStatement") = 0
             /\ AttributeNames(stored["context"].v) =
                  (IF Occurrences(given["context"].v, "AttributeStatement") = 1
                     THEN DeclaredNames(given["attributes"].v) ELSE <<>>)
             /\ Placeholders(stored["context"].v, {"attrMail", "attrRole"}) =
                  Placeholders(given["context"].v, {"AttributeStatement"})
       /\ console = <<>>

\* A template declaring role before mail is stored with the two Attribute
\* elements in that order, before any call was made.
C8_Witness ==
  /\ GivenValid
  /\ calls = EmptyBag
  /\ DeclaredNames(idpSetting["loginResponseTemplate"]["attributes"].v) = <<"role", "mail">>
  /\ AttributeNames(entitySetting["loginResponseTemplate"]["context"].v) = <<"role", "mail">>

\* The document a response pipeline produces when every step succeeds.
RECURSIVE RunAlone(_, _, _)
RunAlone(doc, steps, setting) ==
  IF steps = <<>> THEN doc
  ELSE RunAlone(applyStep(doc, Head(steps), setting), Tail(steps), setting)

\* The outcomes a createLoginResponse call has when it is the only call.
AloneCreate(call, setting) ==
  IF call.binding # "post"
    THEN { [pc |-> "failed", err |-> "this binding is not supported", ret |-> EmptyObj] }
    ELSE { [pc |-> "failed", err |-> stepError(Pipeline(call)[n]), ret |-> EmptyObj] :
             n \in DOMAIN Pipeline(call) }
         \cup
         { [pc |-> "done", err |-> "",
            ret |-> loginResponseResult(
                      payload(RunAlone(NoDoc, Pipeline(call), setting), extra),
                      call.sp, call.binding)] : extra \in PayloadExtras }

\* The outcome a parseLoginRequest call has when it is the only call.
AloneParse(call, setting) ==
  LET r == genericParser(parserOptions(setting, call.sp), call.binding, call.req)
  IN { [pc |-> IF r.ok THEN "done" ELSE "failed", err |-> r.err, ret |-> r.result] }

Outcome(call) == [pc |-> call.pc, err |-> call.err, ret |-> call.ret]

\* What C9 says of each state.
C9_State ==
  /\ \A c \in Creates :
       /\ c.pc \in {"done", "failed"} =>
            Outcome(c) \in AloneCreate(c, entitySetting)
       /\ c.pc = "done" =>
            /\ c.todo = <<>>
            /\ Has(c.log, "encode")
            /\ c.sp = "sp1" => Has(c.log, "encrypt")
            /\ "context" \in DOMAIN c.ret
  /\ \A c \in Parses : Outcome(c) \in AloneParse(c, entitySetting)

\* What C9 says of each step: the settings stay as they are, and a step
\* either adds one call or changes the progress and result of one call,
\* leaving its arguments and the record of every other call as they are.
C9_Step ==
  /\ entitySetting' = entitySetting
  /\ console' = console
  /\ \/ \E new \in BagToSet(calls') : calls' = calls (+) SetToBag({new})
     \/ \E c \in BagToSet(calls), next \in BagToSet(calls') :
          /\ calls' = Replace(calls, c, next)
          /\ [next EXCEPT !.pc = c.pc, !.todo = c.todo, !.log = c.log,
                 !.doc = c.doc, !.context = c.context, !.ret = c.ret,
                 !.err = c.err] = c

\* C9: no step of a call changes the entity's settings or another call's
\* record; every call that ended, however the steps of the calls in flight
\* were interleaved, ended with an outcome it has when run alone; and a
\* createLoginResponse call returns its payload only after the building
\* (the encryption included) and the encoding have completed.
C9_CallsIndependent == [](C9_State) /\ [][C9_Step]_vars

\* Two calls are in flight at once, one waiting for its encryption after
\* signing and one waiting for its signing after encryption.
C9_Witness ==
  /\ \E c \in Creates :
       c.pc = "building" /\ c.flag = "false" /\ c.log = <<"template", "sign">>
  /\ \E c \in Creates :
       c.pc = "building" /\ c.flag = "true" /\ c.log = <<"template", "encrypt">>

\* C10: a setting without tagPrefix.encryptedAssertion (tagPrefix left out,
\* or given with other prefixes only) leaves the entity with the prefix
\* "saml", a setting without wantAuthnRequestsSigned leaves it false, and a
\* value the caller gave for either is the entity's.
C10_DefaultsApply ==
  LET givenPrefix ==
        "tagPrefix" \in DOMAIN idpSetting
          /\ "encryptedAssertion" \in DOMAIN idpSetting["tagPrefix"]
      prefixSet ==
        "tagPrefix" \in DOMAIN entitySetting
          /\ "encryptedAssertion" \in DOMAIN entitySetting["tagPrefix"]
  IN /\ prefixSet
     /\ entitySetting["tagPrefix"]["encryptedAssertion"] =
          (IF givenPrefix THEN idpSetting["tagPrefix"]["encryptedAssertion"] ELSE "saml")
     /\ "wantAuthnRequestsSigned" \in DOMAIN entitySetting
     /\ entitySetting["wantAuthnRequestsSigned"] = WantSigned

====
